---- MODULE Spec2Model ----
(***************************************************************************)
(* A model of JsonTreeProvider (src/src/json/jsonTree.ts): the tree data   *)
(* provider that parses the active JSON or YAML document into TreeNodes,   *)
(* indexes them by offset, answers getChildren / getTreeItem and renames   *)
(* keys through the host editor.                                           *)
(*                                                                         *)
(* Texts are sequences of one-character strings; offsets are 0-based as in *)
(* the source, so the character at offset o of text t is t[o + 1].         *)
(***************************************************************************)
EXTENDS Integers, Sequences, FiniteSets, TLC

\* ------------------------------------------------------------------------
\* Text helpers (String.prototype.slice / trim / startsWith on a text)
\* ------------------------------------------------------------------------

Min(a, b) == IF a < b THEN a ELSE b

Max(a, b) == IF a > b THEN a ELSE b

\* text.slice(from, to) for 0 <= from, to (JavaScript clamps both to the length)
Slice(t, from, to) ==
  LET f == Min(from, Len(t))
      e == Min(to, Len(t))
  IN  IF e <= f THEN <<>> ELSE SubSeq(t, f + 1, e)

\* the text with [from, to) replaced by r (a committed editBuilder.replace)
Splice(t, from, to, r) == Slice(t, 0, from) \o r \o Slice(t, to, Len(t))

RECURSIVE TrimLeft(_)
TrimLeft(t) == IF t # <<>> /\ Head(t) = " " THEN TrimLeft(Tail(t)) ELSE t

RECURSIVE TrimRight(_)
TrimRight(t) ==
  IF t # <<>> /\ t[Len(t)] = " " THEN TrimRight(SubSeq(t, 1, Len(t) - 1)) ELSE t

Trim(t) == TrimRight(TrimLeft(t))

\* Number.prototype.toString() of a small non-negative integer
Digit(n) == <<"0", "1", "2", "3", "4", "5", "6", "7", "8", "9">>[n + 1]

RECURSIVE NumToString(_)
NumToString(n) == IF n < 10 THEN <<Digit(n)>> ELSE NumToString(n \div 10) \o <<Digit(n % 10)>>

\* ------------------------------------------------------------------------
\* jsonc-parser: json.parseTree(text), called at jsonTree.ts:106.  The
\* library is fault tolerant: on malformed input it still returns the nodes
\* it could build, and undefined only when the text holds no value at all.
\* ------------------------------------------------------------------------

IsDigit(c) == c \in {"0", "1", "2", "3", "4", "5", "6", "7", "8", "9"}

JsonPunct == {"{", "}", "[", "]", ":", ","}

\* the scanner's isUnknownContentCharacter
IsUnknownContent(c) == c \notin (JsonPunct \cup {" ", "\"", "/"})

CharAt(t, o) == IF o < Len(t) THEN t[o + 1] ELSE "EOF"

RECURSIVE RunEnd(_, _, _)
\* the end of the run of characters of class k that starts at offset o
RunEnd(t, o, k) ==
  IF o >= Len(t) THEN o
  ELSE LET c == t[o + 1]
           in == CASE k = "space" -> c = " "
                   [] k = "digit" -> IsDigit(c)
                   [] OTHER -> IsUnknownContent(c)
       IN  IF in THEN RunEnd(t, o + 1, k) ELSE o

RECURSIVE JsonScanString(_, _, _)
\* scanString from offset o (after the opening quote): [end, value]
JsonScanString(t, o, acc) ==
  IF o >= Len(t) THEN [end |-> o, value |-> acc]
  ELSE LET c == t[o + 1] IN
       IF c = "\"" THEN [end |-> o + 1, value |-> acc]
       ELSE IF c = "\\" THEN
              IF o + 1 >= Len(t) THEN [end |-> o + 1, value |-> acc]
              ELSE LET d == t[o + 2] IN
                   JsonScanString(t, o + 2,
                     IF d \in {"\"", "\\", "/"} THEN Append(acc, d) ELSE acc)
            ELSE JsonScanString(t, o + 1, Append(acc, c))

Token(kind, offset, end, value) ==
  [kind |-> kind, offset |-> offset, length |-> end - offset, end |-> end, value |-> value]

\* scanner.scan() at offset o
JsonScan(t, o) ==
  IF o >= Len(t) THEN Token("eof", Len(t), Len(t), <<>>)
  ELSE LET c == t[o + 1] IN
       IF c = " " THEN Token("trivia", o, RunEnd(t, o, "space"), <<>>)
       ELSE IF c \in JsonPunct THEN Token(c, o, o + 1, <<c>>)
       ELSE IF c = "\"" THEN
              LET s == JsonScanString(t, o + 1, <<>>) IN Token("string", o, s.end, s.value)
       ELSE IF IsDigit(c) THEN
              LET e == RunEnd(t, o, "digit") IN Token("number", o, e, Slice(t, o, e))
       ELSE LET e == Max(RunEnd(t, o, "word"), o + 1)
                w == Slice(t, o, e)
            IN  IF w = <<"n", "u", "l", "l">> THEN Token("null", o, e, w)
                ELSE IF w = <<"t", "r", "u", "e">> \/ w = <<"f", "a", "l", "s", "e">>
                       THEN Token("boolean", o, e, w)
                ELSE Token("unknown", o, e, w)

RECURSIVE JsonScanNext(_, _)
\* visit's scanNext: the next token that is neither trivia nor unknown
JsonScanNext(t, o) ==
  LET tok == JsonScan(t, o)
  IN  IF tok.kind \in {"trivia", "unknown"} THEN JsonScanNext(t, tok.end) ELSE tok

RECURSIVE JsonSkipUntil(_, _, _)
\* handleError(error, [], skipUntil)
JsonSkipUntil(t, tok, stops) ==
  IF tok.kind = "eof" \/ tok.kind \in stops THEN tok
  ELSE JsonSkipUntil(t, JsonScanNext(t, tok.end), stops)

RawNode(type, offset, length, value, children) ==
  [type |-> type, offset |-> offset, length |-> length, value |-> value,
   children |-> children]

RECURSIVE JsonParseValue(_, _)
RECURSIVE JsonParseItems(_, _, _, _, _)

\* parseProperty once the value v is parsed and the scanner stands at t2
JsonPropertyNode(tok, keyNode, v, t2) ==
  [ok |-> TRUE,
   nodes |-> <<RawNode("property", tok.offset,
                       (IF v.ok THEN v.nodes[1].offset + v.nodes[1].length ELSE t2.offset)
                         - tok.offset,
                       <<>>, <<keyNode>> \o v.nodes)>>,
   tok |-> t2]

\* parseProperty after the colon: v is what parseValue gave
JsonPropertyValue(t, tok, keyNode, v) ==
  JsonPropertyNode(tok, keyNode, v,
                   IF v.ok THEN v.tok ELSE JsonSkipUntil(t, v.tok, {"}", ","}))

\* parseProperty without a colon: the scanner skipped to t2
JsonPropertyNoColon(tok, keyNode, t2) ==
  [ok |-> TRUE,
   nodes |-> <<RawNode("property", tok.offset, t2.offset - tok.offset, <<>>, <<keyNode>>)>>,
   tok |-> t2]

\* parseProperty after the key, t1 the token that follows it
JsonPropertyAfterKey(t, tok, keyNode, t1) ==
  IF t1.kind = ":"
    THEN JsonPropertyValue(t, tok, keyNode, JsonParseValue(t, JsonScanNext(t, t1.end)))
    ELSE JsonPropertyNoColon(tok, keyNode, JsonSkipUntil(t, t1, {"}", ","}))

\* parseProperty: [ok, nodes, tok]
JsonParseProperty(t, tok) ==
  IF tok.kind # "string"
    THEN [ok |-> FALSE, nodes |-> <<>>, tok |-> JsonSkipUntil(t, tok, {"}", ","})]
    ELSE JsonPropertyAfterKey(t, tok,
                              RawNode("string", tok.offset, tok.length, tok.value, <<>>),
                              JsonScanNext(t, tok.end))

\* one round of the loop of parseObject / parseArray, r what the item gave
JsonItemParsed(t, r, acc, kind, close) ==
  JsonParseItems(t, IF r.ok THEN r.tok ELSE JsonSkipUntil(t, r.tok, {close, ","}),
                 TRUE, acc \o r.nodes, kind)

\* the item that starts at token t1
JsonParseItem(t, t1, kind) ==
  IF kind = "object" THEN JsonParseProperty(t, t1) ELSE JsonParseValue(t, t1)

\* the loop of parseObject / parseArray: [nodes, tok]
JsonParseItems(t, tok, needsComma, acc, kind) ==
  IF tok.kind = (IF kind = "object" THEN "}" ELSE "]") \/ tok.kind = "eof"
    THEN [nodes |-> acc, tok |-> tok]
    ELSE JsonItemParsed(t,
                        JsonParseItem(t, IF tok.kind = "," THEN JsonScanNext(t, tok.end)
                                         ELSE tok, kind),
                        acc, kind, IF kind = "object" THEN "}" ELSE "]")

\* parseObject / parseArray once the items r are parsed
JsonContainer(t, tok, kind, r) ==
  [ok |-> TRUE,
   nodes |-> <<RawNode(kind, tok.offset, r.tok.end - tok.offset, <<>>, r.nodes)>>,
   tok |-> IF r.tok.kind # "eof" THEN JsonScanNext(t, r.tok.end) ELSE r.tok]

\* parseObject / parseArray from its opening bracket tok
JsonParseContainer(t, tok, kind) ==
  JsonContainer(t, tok, kind, JsonParseItems(t, JsonScanNext(t, tok.end), FALSE, <<>>, kind))

\* parseValue: [ok, nodes, tok]
JsonParseValue(t, tok) ==
  IF tok.kind \in {"[", "{"}
    THEN JsonParseContainer(t, tok, IF tok.kind = "{" THEN "object" ELSE "array")
  ELSE IF tok.kind \in {"string", "number", "boolean", "null"}
    THEN [ok |-> TRUE,
          nodes |-> <<RawNode(tok.kind, tok.offset, tok.length, tok.value, <<>>)>>,
          tok |-> JsonScanNext(t, tok.end)]
  ELSE [ok |-> FALSE, nodes |-> <<>>, tok |-> tok]

\* json.parseTree(text): <<>> for undefined, else <<root>>
JsonParseTree(t) == JsonParseValue(t, JsonScanNext(t, 0)).nodes

\* ------------------------------------------------------------------------
\* yaml: parseDocument(text), called at jsonTree.ts:275, for single-line
\* documents in flow style ({..}, [..], scalars) and the one-entry block
\* mapping "key: value".  Every parsed node carries range =
\* <<start, valueEnd, nodeEnd>>; a Pair has no range of its own.  A flow
\* mapping entry without ':' is a Pair whose value is null (value = <<>>);
\* an entry with ':' and nothing after it gets an empty scalar node.
\* ------------------------------------------------------------------------

FlowInd == {"{", "}", "[", "]", ","}

YamlIsColon(t, o, inFlow) ==
  /\ CharAt(t, o) = ":"
  /\ \/ CharAt(t, o + 1) \in {" ", "EOF"}
     \/ inFlow /\ CharAt(t, o + 1) \in FlowInd

RECURSIVE YamlPlainEnd(_, _, _, _)
\* the end of the plain scalar whose last non-space character so far ends at last
YamlPlainEnd(t, o, inFlow, last) ==
  IF o >= Len(t) THEN last
  ELSE LET c == t[o + 1] IN
       IF (inFlow /\ c \in FlowInd) \/ YamlIsColon(t, o, inFlow) THEN last
       ELSE YamlPlainEnd(t, o + 1, inFlow, IF c = " " THEN last ELSE o + 1)

RECURSIVE YamlScanQuoted(_, _, _, _)
\* a quoted scalar's [end, value] from offset o (after the opening quote q)
YamlScanQuoted(t, o, q, acc) ==
  IF o >= Len(t) THEN [end |-> o, value |-> acc]
  ELSE LET c == t[o + 1] IN
       IF c = q /\ q = "'" /\ CharAt(t, o + 1) = "'"
         THEN YamlScanQuoted(t, o + 2, q, Append(acc, "'"))
       ELSE IF c = q THEN [end |-> o + 1, value |-> acc]
       ELSE IF c = "\\" /\ q = "\"" /\ o + 1 < Len(t)
         THEN YamlScanQuoted(t, o + 2, q, Append(acc, t[o + 2]))
       ELSE YamlScanQuoted(t, o + 1, q, Append(acc, c))

YamlNode(kind, start, end, vtype, value, items, quoted) ==
  [kind |-> kind, range |-> <<start, end, end>>, vtype |-> vtype, value |-> value,
   items |-> items, quoted |-> quoted]

\* a Pair: key and value are <<>> (null) or <<node>>; a Pair has no range
YamlPair(key, value) == [key |-> key, value |-> value, range |-> <<>>]

\* the empty scalar the composer puts where a node is missing
YamlEmptyNode(o) == YamlNode("scalar", o, o, "null", <<>>, <<>>, FALSE)

\* the core schema's resolution of a plain scalar
YamlPlainType(w) ==
  IF w = <<"n", "u", "l", "l">> \/ w = <<"~">> THEN "null"
  ELSE IF w = <<"t", "r", "u", "e">> \/ w = <<"f", "a", "l", "s", "e">> THEN "boolean"
  ELSE IF \A i \in 1..Len(w) : IsDigit(w[i]) THEN "number"
  ELSE "string"

RECURSIVE YamlParseNode(_, _, _)
RECURSIVE YamlFlowItems(_, _, _, _)

\* the entry whose key is keyNode, once what follows the colon at o3 is parsed
YamlEntryValue(keyNode, o3, v) ==
  [pair |-> YamlPair(<<keyNode>>, IF v.nodes = <<>> THEN <<YamlEmptyNode(o3)>> ELSE v.nodes),
   colon |-> TRUE, end |-> IF v.nodes = <<>> THEN o3 ELSE v.end]

\* the entry after its colon at o2: the value starts at o3
YamlEntryAfterColon(t, keyNode, o3, inFlow) ==
  YamlEntryValue(keyNode, o3, YamlParseNode(t, o3, inFlow))

\* the entry once its key k is parsed; o2 is where a colon may stand
YamlEntryAfterKey(t, o, inFlow, k, keyNode, o2) ==
  IF /\ CharAt(t, o2) = ":"
     /\ \/ inFlow /\ k.nodes # <<>> /\ (keyNode.kind # "scalar" \/ keyNode.quoted)
        \/ YamlIsColon(t, o2, inFlow)
    THEN YamlEntryAfterColon(t, keyNode, RunEnd(t, o2 + 1, "space"), inFlow)
    ELSE [pair |-> YamlPair(<<keyNode>>, <<>>), colon |-> FALSE, end |-> k.end]

\* the entry whose key parse gave k
YamlEntryOfKey(t, o, inFlow, k) ==
  YamlEntryAfterKey(t, o, inFlow, k,
                    IF k.nodes = <<>> THEN YamlEmptyNode(o) ELSE k.nodes[1],
                    RunEnd(t, k.end, "space"))

\* a mapping entry at offset o: [pair, colon, end]
YamlParseEntry(t, o, inFlow) == YamlEntryOfKey(t, o, inFlow, YamlParseNode(t, o, inFlow))

\* the item a flow collection takes from the entry e
YamlFlowItem(e, isMap) ==
  IF isMap THEN e.pair
  ELSE IF e.colon
    THEN YamlNode("map", e.pair.key[1].range[1], e.end, "object", <<>>, <<e.pair>>, FALSE)
  ELSE e.pair.key[1]

\* the flow collection goes on after the entry e that started at o1
YamlFlowNext(t, o1, isMap, acc, e) ==
  YamlFlowItems(t, Max(e.end, o1 + 1), isMap, Append(acc, YamlFlowItem(e, isMap)))

\* the items of a flow collection from o1, the offset of its next character c
YamlFlowAt(t, o1, c, isMap, acc) ==
  IF c = "EOF" THEN [items |-> acc, end |-> o1]
  ELSE IF c \in {"}", "]"} THEN [items |-> acc, end |-> o1 + 1]
  ELSE IF c = "," THEN YamlFlowItems(t, o1 + 1, isMap, acc)
  ELSE YamlFlowNext(t, o1, isMap, acc, YamlParseEntry(t, o1, TRUE))

\* the items of a flow collection after spaces
YamlFlowFrom(t, o1, isMap, acc) == YamlFlowAt(t, o1, CharAt(t, o1), isMap, acc)

\* the items of a flow collection from offset o: [items, end]
YamlFlowItems(t, o, isMap, acc) == YamlFlowFrom(t, RunEnd(t, o, "space"), isMap, acc)

\* the flow collection opened by c at offset o, r its items
YamlFlowNode(o, c, r) ==
  [nodes |-> <<YamlNode(IF c = "{" THEN "map" ELSE "seq", o, r.end, "object", <<>>,
                        r.items, FALSE)>>,
   end |-> r.end]

\* the quoted scalar at offset o, s what the scan gave
YamlQuotedNode(o, s) ==
  [nodes |-> <<YamlNode("scalar", o, s.end, "string", s.value, <<>>, TRUE)>>, end |-> s.end]

\* the plain scalar w = t[o, e)
YamlPlainNode(o, e, w) ==
  [nodes |-> <<YamlNode("scalar", o, e, YamlPlainType(w), w, <<>>, FALSE)>>, end |-> e]

\* the plain scalar at offset o that ends at e
YamlPlainAt(t, o, e) == YamlPlainNode(o, e, Slice(t, o, e))

\* the node at offset o, whose character is c
YamlNodeAt(t, o, inFlow, c) ==
  IF c \in {"{", "["} THEN YamlFlowNode(o, c, YamlFlowItems(t, o + 1, c = "{", <<>>))
  ELSE IF c \in {"\"", "'"} THEN YamlQuotedNode(o, YamlScanQuoted(t, o + 1, c, <<>>))
  ELSE IF c \in {"EOF", "}", "]", ","} \/ YamlIsColon(t, o, inFlow)
    THEN [nodes |-> <<>>, end |-> o]
  ELSE YamlPlainAt(t, o, YamlPlainEnd(t, o, inFlow, o))

\* the node at offset o: [nodes, end], nodes = <<>> when there is none
YamlParseNode(t, o, inFlow) == YamlNodeAt(t, o, inFlow, CharAt(t, o))

\* the contents of the document whose first entry, at o, is e
YamlContents(o, e) ==
  IF e.colon
    THEN <<YamlNode("map", e.pair.key[1].range[1], e.end, "object", <<>>, <<e.pair>>, FALSE)>>
  ELSE IF e.end = o THEN <<>>
  ELSE <<e.pair.key[1]>>

\* the document that starts at o after spaces
YamlDocumentAt(t, o) == YamlContents(o, YamlParseEntry(t, o, FALSE))

\* parseDocument(text).contents: <<>> for null, else <<root>>
YamlParseDocument(t) == YamlDocumentAt(t, RunEnd(t, 0, "space"))

\* ------------------------------------------------------------------------
\* TreeNode and the tree builders
\* ------------------------------------------------------------------------

\* a key: undefined, or a string / number / null / object with its toString()
NoKey == [k |-> "undefined", s |-> <<>>]

StrKey(s) == [k |-> "string", s |-> s]

NumKey(n) == [k |-> "number", s |-> NumToString(n)]

\* interface TreeNode.  parent is the id of the parent node in the heap (0 for
\* undefined), children the ids of the children; keyOffset / keyLength are -1
\* when undefined.
TreeNode(offset, length, type, value, parent, key) ==
  [offset |-> offset, length |-> length, type |-> type, value |-> value,
   parent |-> parent, key |-> key, children |-> <<>>,
   keyOffset |-> -1, keyLength |-> -1]

\* nodeMap.set(offset, id)
MapSet(m, o, id) == [x \in DOMAIN m \cup {o} |-> IF x = o THEN id ELSE m[x]]

EmptyMap == [x \in {} |-> 0]

EmptyBuild == [heap |-> <<>>, map |-> EmptyMap]

\* current.children?.push(child)
PushChild(b, cur, child) ==
  [b EXCEPT !.heap[cur].children = Append(@, child)]

normalizeNodeType(type) ==
  IF type \in {"object", "array", "number", "boolean", "string", "null"} THEN type
  ELSE "string"

RECURSIVE buildJsonTree(_, _, _, _)
RECURSIVE buildJsonChildren(_, _, _, _, _)

\* buildJsonTree(node, parent, key) on the build state b = [heap, map]:
\* [b, ret], ret the id of the node built, 0 for undefined
buildJsonTree(n, parent, key, b) ==
  IF n = <<>> THEN [b |-> b, ret |-> 0]
  ELSE LET node == n[1] IN
    IF node.type = "property" /\ Len(node.children) > 0
      THEN LET keyNode == node.children[1]
               valueNode == IF Len(node.children) >= 2 THEN <<node.children[2]>> ELSE <<>>
           IN  IF valueNode = <<>> THEN [b |-> b, ret |-> 0]
               ELSE LET r == buildJsonTree(valueNode, parent, StrKey(keyNode.value), b)
                    IN  IF r.ret # 0
                          THEN [b |-> [r.b EXCEPT !.heap[r.ret].keyOffset = keyNode.offset,
                                                  !.heap[r.ret].keyLength = keyNode.length],
                                ret |-> r.ret]
                          ELSE r
      ELSE LET id == Len(b.heap) + 1
               current == TreeNode(node.offset, node.length, normalizeNodeType(node.type),
                                   node.value, parent, key)
               b1 == [heap |-> Append(b.heap, current),
                      map |-> MapSet(b.map, current.offset, id)]
           IN  [b |-> IF node.type \in {"object", "array"}
                        THEN buildJsonChildren(node.children, 1, id, node.type = "array", b1)
                        ELSE b1,
                ret |-> id]

buildJsonChildren(children, i, cur, isArray, b) ==
  IF i > Len(children) THEN b
  ELSE LET r == buildJsonTree(<<children[i]>>, cur,
                              IF isArray THEN NumKey(i - 1) ELSE NoKey, b)
       IN  buildJsonChildren(children, i + 1, cur, isArray,
                             IF r.ret # 0 THEN PushChild(r.b, cur, r.ret) ELSE r.b)

NoRange == [ok |-> FALSE, start |-> 0, end |-> 0]

\* getYamlRange(node), node = <<>> for null / undefined.  The library gives
\* every node the tuple form, so the { start, end } object form never occurs.
getYamlRange(n) ==
  IF n = <<>> THEN NoRange
  ELSE IF Len(n[1].range) >= 2
    THEN [ok |-> TRUE, start |-> n[1].range[1], end |-> n[1].range[2]]
  ELSE NoRange

isMap(node) == node.kind = "map"

isSeq(node) == node.kind = "seq"

\* getYamlValue(node): the value with its typeof ("object" for toJSON() of a
\* collection)
getYamlValue(node) == [t |-> node.vtype, s |-> node.value]

getYamlNodeType(node) ==
  IF isMap(node) THEN "object"
  ELSE IF isSeq(node) THEN "array"
  ELSE IF getYamlValue(node).t \in {"string", "number", "boolean"} THEN getYamlValue(node).t
  ELSE "null"

\* getYamlPairKey(pair): the key's value (null for an empty key), or its toJSON()
getYamlPairKey(pair) ==
  IF pair.key = <<>> THEN NoKey
  ELSE [k |-> pair.key[1].vtype, s |-> pair.key[1].value]

\* a builder that puts the synthesized null node at its parent's offset
nullNodeOffsetAtParent(keyRange, current) == current.offset

\* the offset of the null node synthesized for a pair without a value
nullNodeOffset(keyRange, current) == IF keyRange.ok THEN keyRange.end ELSE current.offset

RECURSIVE buildYamlTree(_, _, _, _)
RECURSIVE buildYamlPairs(_, _, _, _)
RECURSIVE buildYamlItems(_, _, _, _)

\* buildYamlTree(node, parent, key) on the build state b: [b, ret]
buildYamlTree(n, parent, key, b) ==
  LET range == getYamlRange(n) IN
  IF ~range.ok THEN [b |-> b, ret |-> 0]
  ELSE LET node == n[1]
           id == Len(b.heap) + 1
           current == TreeNode(range.start, range.end - range.start,
                               getYamlNodeType(node), getYamlValue(node).s, parent, key)
           b1 == [heap |-> Append(b.heap, current),
                  map |-> MapSet(b.map, current.offset, id)]
       IN  [b |-> IF isMap(node) THEN buildYamlPairs(node.items, 1, id, b1)
                  ELSE IF isSeq(node) THEN buildYamlItems(node.items, 1, id, b1)
                  ELSE b1,
            ret |-> id]

buildYamlPairs(items, i, cur, b) ==
  IF i > Len(items) THEN b
  ELSE LET pair == items[i]
           childKey == getYamlPairKey(pair)
           keyRange == getYamlRange(IF pair.key # <<>> THEN pair.key ELSE <<pair>>)
       IN  IF pair.value # <<>>
             THEN LET r == buildYamlTree(pair.value, cur, childKey, b)
                      b2 == IF r.ret = 0 THEN r.b
                            ELSE PushChild(
                                   IF keyRange.ok
                                     THEN [r.b EXCEPT
                                             !.heap[r.ret].keyOffset = keyRange.start,
                                             !.heap[r.ret].keyLength =
                                               keyRange.end - keyRange.start]
                                     ELSE r.b,
                                   cur, r.ret)
                  IN  buildYamlPairs(items, i + 1, cur, b2)
             ELSE LET id == Len(b.heap) + 1
                      nullNode == [TreeNode(nullNodeOffset(keyRange, b.heap[cur]), 0, "null",
                                            <<>>, cur, childKey)
                                     EXCEPT !.keyOffset = IF keyRange.ok THEN keyRange.start
                                                          ELSE -1,
                                            !.keyLength = IF keyRange.ok
                                                            THEN keyRange.end - keyRange.start
                                                            ELSE 0]
                      b2 == [heap |-> Append(b.heap, nullNode),
                             map |-> MapSet(b.map, nullNode.offset, id)]
                  IN  buildYamlPairs(items, i + 1, cur, PushChild(b2, cur, id))

buildYamlItems(items, i, cur, b) ==
  IF i > Len(items) THEN b
  ELSE LET r == buildYamlTree(<<items[i]>>, cur, NumKey(i - 1), b)
       IN  buildYamlItems(items, i + 1, cur,
                          IF r.ret # 0 THEN PushChild(r.b, cur, r.ret) ELSE r.b)

\* parseYamlTree() on this.text.  Nothing in the modelled library throws, so
\* the catch branch is not taken.
parseYamlContents(contents) ==
  IF contents = <<>> THEN [b |-> EmptyBuild, ret |-> 0]
  ELSE buildYamlTree(contents, 0, NoKey, EmptyBuild)

parseYamlTree(t) == parseYamlContents(YamlParseDocument(t))

\* ------------------------------------------------------------------------
\* The host: documents, the active editor, and the provider's state
\* ------------------------------------------------------------------------

Q == "\""

\* the documents open in the host, one editor each
Docs == {"j", "y", "p"}

NoEditor == "none"

LanguageOf(d) ==
  CASE d = "j" -> "json"
    [] d = "y" -> "yaml"
    [] OTHER -> "plaintext"

SchemeOf(d) == "file"

\* {"a":[1]}
JsonText == <<"{", Q, "a", Q, ":", "[", "1", "]", "}">>

\* {"a": 1, k}
YamlText == <<"{", Q, "a", Q, ":", " ", "1", ",", " ", "k", "}">>

\* an empty document
PlainText == <<>>

InitialText(d) ==
  CASE d = "j" -> JsonText
    [] d = "y" -> YamlText
    [] OTHER -> PlainText

\* what the user may turn a document into: "" and "[1"
UserTexts == {<<>>, <<"[", "1">>}

\* what the user may type into the input box
Labels == {<<"k">>, <<Q>>}

\* renames and user edits in one run
MaxChanges == 2

VARIABLES
  docText,          \* the text of each document
  active,           \* vscode.window.activeTextEditor
  jsonTreeEnabled,  \* the 'jsonTreeEnabled' context key
  autoRefresh,      \* this.autoRefresh
  tree,             \* this.tree: the id of the root in heap, 0 for undefined
  text,             \* this.text
  editor,           \* this.editor
  languageId,       \* this.languageId
  nodeMap,          \* this.nodeMap: offset -> id in heap
  heap,             \* the TreeNode objects of the last parse
  inputBoxes,       \* showInputBox promises not yet resolved: [offset]
  edits,            \* editor.edit requests the host has not yet applied
  timers,           \* setTimeout callbacks not yet run
  fired,            \* the _onDidChangeTreeData events of the last step (-1: undefined)
  ret,              \* what the last facade call returned or threw
  lastOp,           \* the last operation and its arguments
  nChanges          \* rename calls and user edits so far

vars == <<docText, active, jsonTreeEnabled, autoRefresh, tree, text, editor, languageId,
          nodeMap, heap, inputBoxes, edits, timers, fired, ret, lastOp, nChanges>>

provider == <<tree, text, editor, languageId, nodeMap, heap>>

host == <<docText, active, jsonTreeEnabled>>

pending == <<inputBoxes, edits, timers>>

counters == <<nChanges>>

isYamlLanguage(lang) == lang = "yaml"

\* lines 106-107: the tree built from what json.parseTree returned
parseJsonTree(parsedJson) ==
  IF parsedJson # <<>> THEN buildJsonTree(parsedJson, 0, NoKey, EmptyBuild)
  ELSE [b |-> EmptyBuild, ret |-> 0]

\* the provider's fields once the text t of editor act is parsed into r
parsedFields(act, t, lang, r) ==
  [text |-> t, tree |-> r.ret, languageId |-> lang, nodeMap |-> r.b.map,
   heap |-> r.b.heap, editor |-> act]

\* lines 101-108: the parse of the text t of editor act
parseText(act, t, lang) ==
  parsedFields(act, t, lang,
               IF isYamlLanguage(lang) THEN parseYamlTree(t)
               ELSE parseJsonTree(JsonParseTree(t)))

\* parseTree() with activeTextEditor = act and the documents' texts: the new
\* values of the provider's fields
parseTree(act, texts) ==
  IF act = NoEditor
    THEN [text |-> <<>>, tree |-> 0, languageId |-> "undefined", nodeMap |-> EmptyMap,
          heap |-> <<>>, editor |-> NoEditor]
    ELSE parseText(act, texts[act], LanguageOf(act))

\* the provider's fields are those of P
ProviderIs(P) ==
  /\ tree = P.tree
  /\ text = P.text
  /\ editor = P.editor
  /\ languageId = P.languageId
  /\ nodeMap = P.nodeMap
  /\ heap = P.heap

SetProvider(P) ==
  /\ tree' = P.tree
  /\ text' = P.text
  /\ editor' = P.editor
  /\ languageId' = P.languageId
  /\ nodeMap' = P.nodeMap
  /\ heap' = P.heap

\* the argument refresh(offset) fires with: offset when truthy, else undefined
refreshFires(offset) == IF offset # -1 /\ offset # 0 THEN offset ELSE -1

\* the 'jsonTreeEnabled' context after onActiveEditorChanged
enabledContext(act, old) ==
  IF act # NoEditor
    THEN IF SchemeOf(act) = "file"
           THEN LanguageOf(act) \in {"json", "jsonc", "yaml"}
           ELSE old
    ELSE FALSE

\* document.positionAt(offset) of a single-line document, as an offset: the
\* host clamps the offset to the document
PositionAt(t, o) == Min(Max(o, 0), Len(t))

\* document.getText(new Range(positionAt(from), positionAt(to)))
GetText(t, from, to) == Slice(t, PositionAt(t, from), PositionAt(t, to))

\* ------------------------------------------------------------------------
\* The facade: getChildren, getTreeItem, getLabel
\* ------------------------------------------------------------------------

\* an enumeration that lists the children last to first
getChildrenOffsetsReversed(node) ==
  [i \in 1..Len(node.children) |->
     heap[node.children[Len(node.children) + 1 - i]].offset]

getChildrenOffsets(node) == [i \in 1..Len(node.children) |-> heap[node.children[i]].offset]

\* getChildren(offset), offset = -1 when not given
getChildren(offset) ==
  IF offset # -1 /\ offset # 0 /\ tree # 0
    THEN IF offset \in DOMAIN nodeMap THEN getChildrenOffsets(heap[nodeMap[offset]])
         ELSE <<>>
    ELSE IF tree # 0 THEN getChildrenOffsets(heap[tree]) ELSE <<>>

getNodeChildrenCount(node) == NumToString(Len(node.children))

\* children.indexOf(node).toString()
IndexOfString(children, id) ==
  IF \E i \in 1..Len(children) : children[i] = id
    THEN NumToString((CHOOSE i \in 1..Len(children) : children[i] = id) - 1)
    ELSE <<"-", "1">>

\* key.toString(); null.toString() is a TypeError
KeyToString(key) ==
  CASE key.k = "object" -> <<"[object Object]">>
    [] key.k = "null" -> <<"TypeError">>
    [] OTHER -> key.s

\* the two templates of getLabel's scalar branches
arrayScalarLabel(prefix, value) == prefix \o <<":">> \o value

propertyScalarLabel(property, value) == property \o <<":", " ">> \o value

\* getLabel(node) for the node with this id: [ok, s], ok = FALSE for a TypeError
getLabel(id) ==
  LET node == heap[id]
      value == GetText(docText[editor], node.offset, node.offset + node.length)
  IN  IF node.parent # 0 /\ heap[node.parent].type = "array"
        THEN LET prefix == IndexOfString(heap[node.parent].children, id)
             IN  [ok |-> TRUE,
                  s |-> IF node.type = "object"
                          THEN prefix \o <<":", " ", "{", " ">> \o getNodeChildrenCount(node)
                                 \o <<" ", "}">>
                        ELSE IF node.type = "array"
                          THEN prefix \o <<":", " ", "[", " ">> \o getNodeChildrenCount(node)
                                 \o <<" ", "]">>
                        ELSE arrayScalarLabel(prefix, value)]
        ELSE IF node.key.k = "null" THEN [ok |-> FALSE, s |-> <<"TypeError">>]
        ELSE LET property == IF node.key.k # "undefined" THEN KeyToString(node.key) ELSE <<>>
             IN  [ok |-> TRUE,
                  s |-> IF node.type = "object"
                          THEN <<"{", " ">> \o getNodeChildrenCount(node) \o <<" ", "}", " ">>
                                 \o property
                        ELSE IF node.type = "array"
                          THEN <<"[", " ">> \o getNodeChildrenCount(node) \o <<" ", "]", " ">>
                                 \o property
                        ELSE propertyScalarLabel(property, value)]

getIcon(node) == IF node.type \in {"boolean", "string", "number"} THEN node.type ELSE "null"

Threw(message) == [kind |-> "error", message |-> message]

\* getTreeItem(offset): the TreeItem, or the error thrown
getTreeItem(offset) ==
  IF tree = 0 THEN Threw("Invalid tree")
  ELSE IF editor = NoEditor THEN Threw("Invalid editor")
  ELSE IF offset \in DOMAIN nodeMap
    THEN LET id == nodeMap[offset]
             valueNode == heap[id]
             label == getLabel(id)
         IN  IF ~label.ok THEN Threw("TypeError")
             ELSE [kind |-> "item", offset |-> offset, id |-> id, label |-> label.s,
                   collapsibleState |-> IF valueNode.type = "object" THEN "Expanded"
                                        ELSE IF valueNode.type = "array" THEN "Collapsed"
                                        ELSE "None",
                   range |-> <<PositionAt(docText[editor], valueNode.offset),
                               PositionAt(docText[editor],
                                          valueNode.offset + valueNode.length)>>,
                   iconPath |-> getIcon(valueNode),
                   contextValue |-> valueNode.type]
  ELSE Threw("Could not find node")

\* ------------------------------------------------------------------------
\* rename
\* ------------------------------------------------------------------------

RECURSIVE JsonEscape(_)
JsonEscape(s) ==
  IF s = <<>> THEN <<>>
  ELSE (IF Head(s) \in {Q, "\\"} THEN <<"\\", Head(s)>> ELSE <<Head(s)>>)
         \o JsonEscape(Tail(s))

\* JSON.stringify(value) of a string
JsonStringify(s) == <<Q>> \o JsonEscape(s) \o <<Q>>

formatYamlKey(value, node) ==
  IF node.keyOffset = -1 \/ node.keyLength = -1 THEN value
  ELSE LET existing == Slice(text, node.keyOffset, node.keyOffset + node.keyLength)
           trimmed == Trim(existing)
       IN  IF trimmed # <<>> /\ trimmed[1] \in {Q, "'"}
             THEN <<trimmed[1]>> \o value \o <<trimmed[1]>>
             ELSE value

\* a rename that refuses array elements only
renameRefusesArraysOnly(targetNode) ==
  targetNode.parent # 0 /\ heap[targetNode.parent].type = "array"

\* line 58: the targets rename refuses
renameRefuses(targetNode) ==
  \/ targetNode.parent # 0 /\ heap[targetNode.parent].type = "array"
  \/ targetNode.keyOffset = -1
  \/ targetNode.keyLength = -1

\* line 57: value is a string (<<>> is undefined, <<label>> a string) and
\* there are an editor, a tree and a target node
renameAccepts(value, offset) ==
  /\ value # <<>>
  /\ editor # NoEditor
  /\ tree # 0
  /\ offset \in DOMAIN nodeMap

\* line 63
renameReplacement(value, targetNode) ==
  IF isYamlLanguage(languageId) THEN formatYamlKey(value, targetNode)
  ELSE JsonStringify(value)

\* a change handler that does not look at the tree
documentChangeRefreshesWithoutTree(d) == autoRefresh /\ editor # NoEditor /\ d = editor

\* line 88
documentChangeRefreshes(d) == tree # 0 /\ autoRefresh /\ editor # NoEditor /\ d = editor

\* ------------------------------------------------------------------------
\* Operations
\* ------------------------------------------------------------------------

NoRet == [kind |-> "none"]

\* an id no pending edit or timer carries
FreshId ==
  CHOOSE n \in 1..(Len(edits) + Len(timers) + 1) :
    /\ \A i \in 1..Len(edits) : edits[i].id # n
    /\ \A i \in 1..Len(timers) : timers[i].id # n

\* the offsets a caller may hold: those of the index, 0, and one that is stale
StaleOffset == CHOOSE o \in 1..(Cardinality(DOMAIN nodeMap) + 1) : o \notin DOMAIN nodeMap

Handles == DOMAIN nodeMap \cup {0, StaleOffset}

\* the state after construction: parseTree(), the autorefresh configuration,
\* onActiveEditorChanged()
Init ==
  /\ docText = [d \in Docs |-> InitialText(d)]
  /\ active \in Docs \cup {NoEditor}
  /\ jsonTreeEnabled = enabledContext(active, FALSE)
  /\ autoRefresh \in BOOLEAN
  /\ ProviderIs(parseTree(active, docText))
  /\ inputBoxes = <<>>
  /\ edits = <<>>
  /\ timers = <<>>
  /\ fired = <<>>
  /\ ret = NoRet
  /\ lastOp = [op |-> "constructor"]
  /\ nChanges = 0

\* onDocumentChanged(changeEvent) for document d, once the host holds texts
onDocumentChanged(d, texts) ==
  IF documentChangeRefreshes(d)
    THEN /\ SetProvider(parseTree(active, texts))
         /\ fired' = <<-1>>
    ELSE /\ UNCHANGED provider
         /\ fired' = <<>>

\* every pending edit of document d was made against a version that is gone
Invalidate(es, d) == [i \in 1..Len(es) |-> IF es[i].doc = d THEN [es[i] EXCEPT !.valid = FALSE]
                                           ELSE es[i]]

\* the active editor changes to e: onActiveEditorChanged()
ActiveEditorChanged(e) ==
  /\ e # active
  /\ active' = e
  /\ jsonTreeEnabled' = enabledContext(e, jsonTreeEnabled)
  /\ SetProvider(parseTree(e, docText))
  /\ fired' = <<refreshFires(-1)>>
  /\ ret' = NoRet
  /\ lastOp' = [op |-> "onActiveEditorChanged"]
  /\ UNCHANGED <<docText, autoRefresh, pending, counters>>

\* the configuration changes: autorefresh is read again
ConfigurationChanged(b) ==
  /\ autoRefresh' = b
  /\ fired' = <<>>
  /\ ret' = NoRet
  /\ lastOp' = [op |-> "onDidChangeConfiguration"]
  /\ UNCHANGED <<host, provider, pending, counters>>

\* refresh(offset), offset = -1 when not given
Refresh(offset) ==
  /\ SetProvider(parseTree(active, docText))
  /\ fired' = <<refreshFires(offset)>>
  /\ ret' = NoRet
  /\ lastOp' = [op |-> "refresh"]
  /\ UNCHANGED <<host, autoRefresh, pending, counters>>

\* the user (or another extension) changes document d to t; the host then
\* tells the provider
UserEdit(d, t) ==
  /\ nChanges < MaxChanges
  /\ t # docText[d]
  /\ nChanges' = nChanges + 1
  /\ docText' = [docText EXCEPT ![d] = t]
  /\ edits' = Invalidate(edits, d)
  /\ onDocumentChanged(d, docText')
  /\ ret' = NoRet
  /\ lastOp' = [op |-> "onDocumentChanged", doc |-> d, refreshes |-> documentChangeRefreshes(d)]
  /\ UNCHANGED <<active, jsonTreeEnabled, autoRefresh, inputBoxes, timers>>

\* rename(offset): the input box opens.  The host shows one input box at a
\* time: the user answers or dismisses it before asking for another rename.
Rename(offset) ==
  /\ nChanges < MaxChanges
  /\ inputBoxes = <<>>
  /\ nChanges' = nChanges + 1
  /\ inputBoxes' = Append(inputBoxes, [offset |-> offset])
  /\ fired' = <<>>
  /\ ret' = NoRet
  /\ lastOp' = [op |-> "rename", offset |-> offset]
  /\ UNCHANGED <<host, autoRefresh, provider, edits, timers>>

Remove(q, i) == SubSeq(q, 1, i - 1) \o SubSeq(q, i + 1, Len(q))

\* the input box i resolves with value (<<>>: dismissed, <<label>>: a string):
\* the callback of lines 54-70
InputBoxResolved(i, value) ==
  LET box == inputBoxes[i]
      targetNode == heap[nodeMap[box.offset]]
      doc == docText[editor]
      requested == renameAccepts(value, box.offset) /\ ~renameRefuses(targetNode)
  IN  /\ inputBoxes' = Remove(inputBoxes, i)
      /\ IF requested
           THEN /\ edits' = Append(edits,
                      [doc |-> editor,
                       start |-> PositionAt(doc, targetNode.keyOffset),
                       end |-> PositionAt(doc, targetNode.keyOffset + targetNode.keyLength),
                       replacement |-> renameReplacement(value[1], targetNode),
                       valid |-> TRUE,
                       id |-> FreshId])
                /\ timers' = Append(timers, [offset |-> box.offset, id |-> FreshId,
                                             edit |-> "pending"])
           ELSE UNCHANGED <<edits, timers>>
      /\ fired' = <<>>
      /\ ret' = NoRet
      /\ lastOp' = [op |-> "renameInput", offset |-> box.offset, value |-> value,
                    requested |-> requested]
      /\ UNCHANGED <<host, autoRefresh, provider, counters>>

\* the timers' record of what became of the edit with this id
NoteEdit(ts, id, what) == [i \in 1..Len(ts) |-> IF ts[i].id = id THEN [ts[i] EXCEPT !.edit = what]
                                                ELSE ts[i]]

\* the host takes up the oldest edit request: it applies it and reports the
\* document change, or rejects it when the document changed in between
EditProcessed ==
  /\ edits # <<>>
  /\ LET e == Head(edits) IN
     IF e.valid
       THEN /\ docText' = [docText EXCEPT ![e.doc] = Splice(@, e.start, e.end, e.replacement)]
            /\ edits' = Invalidate(Tail(edits), e.doc)
            /\ timers' = NoteEdit(timers, e.id, "applied")
            /\ onDocumentChanged(e.doc, docText')
            /\ lastOp' = [op |-> "editApplied", doc |-> e.doc,
                          refreshes |-> documentChangeRefreshes(e.doc)]
       ELSE /\ edits' = Tail(edits)
            /\ timers' = NoteEdit(timers, e.id, "rejected")
            /\ fired' = <<>>
            /\ lastOp' = [op |-> "editRejected"]
            /\ UNCHANGED <<docText, provider>>
  /\ ret' = NoRet
  /\ UNCHANGED <<active, jsonTreeEnabled, autoRefresh, inputBoxes, counters>>

\* the oldest setTimeout callback runs: parseTree(); refresh(offset)
TimerFired ==
  /\ timers # <<>>
  /\ LET t == Head(timers) IN
     /\ timers' = Tail(timers)
     /\ SetProvider(parseTree(active, docText))
     /\ fired' = <<refreshFires(t.offset)>>
     /\ lastOp' = [op |-> "timer", offset |-> t.offset, edit |-> t.edit]
  /\ ret' = NoRet
  /\ UNCHANGED <<host, autoRefresh, inputBoxes, edits, counters>>

\* the view asks for the children of offset (-1: of the root)
GetChildren(offset) ==
  /\ ret' = [kind |-> "children", offsets |-> getChildren(offset)]
  /\ fired' = <<>>
  /\ lastOp' = [op |-> "getChildren", offset |-> offset]
  /\ UNCHANGED <<host, autoRefresh, provider, pending, counters>>

\* the view asks for the item of offset
GetTreeItem(offset) ==
  /\ ret' = getTreeItem(offset)
  /\ fired' = <<>>
  /\ lastOp' = [op |-> "getTreeItem", offset |-> offset]
  /\ UNCHANGED <<host, autoRefresh, provider, pending, counters>>

Next ==
  \/ \E e \in Docs \cup {NoEditor} : ActiveEditorChanged(e)
  \/ \E b \in BOOLEAN : ConfigurationChanged(b)
  \/ Refresh(-1)
  \/ \E d \in Docs, t \in UserTexts : UserEdit(d, t)
  \/ \E o \in Handles : Rename(o)
  \/ \E i \in 1..Len(inputBoxes), v \in {<<>>} \cup {<<l>> : l \in Labels} : InputBoxResolved(i, v)
  \/ EditProcessed
  \/ TimerFired
  \/ \E o \in Handles \cup {-1} : GetChildren(o)
  \/ \E o \in Handles : GetTreeItem(o)

Spec == Init /\ [][Next]_vars

\* ------------------------------------------------------------------------
\* Properties
\* ------------------------------------------------------------------------

RECURSIVE Reachable(_)
\* the ids of the nodes reachable from node id through children
Reachable(id) ==
  {id} \cup UNION {Reachable(heap[id].children[i]) : i \in 1..Len(heap[id].children)}

\* the offsets of the children of node id, in the order of its children list
ChildOffsets(id) ==
  [i \in 1..Len(heap[id].children) |-> heap[heap[id].children[i]].offset]

IsIncreasing(q) == \A i \in 1..(Len(q) - 1) : q[i] < q[i + 1]

\* C1: after every successful parse, every node reachable from the root is in
\* the offset index under its own offset, and the index gives back that very
\* node (none is missing, none is shadowed by another node of the same offset).
C1_IndexHoldsEveryReachableNode ==
  tree # 0 =>
    \A id \in Reachable(tree) :
      /\ heap[id].offset \in DOMAIN nodeMap
      /\ nodeMap[heap[id].offset] = id

\* a parse on a switch of editor gave a YAML tree holding the null node synthesized for an entry without a value,
\* right after its key span, and found in the index
C1_Witness ==
  /\ lastOp.op = "onActiveEditorChanged"
  /\ tree # 0
  /\ languageId = "yaml"
  /\ \E id \in Reachable(tree) :
       /\ id # tree
       /\ heap[id].type = "null"
       /\ heap[id].length = 0
       /\ heap[id].keyLength > 0
       /\ heap[id].offset = heap[id].keyOffset + heap[id].keyLength
       /\ nodeMap[heap[id].offset] = id

\* C2: for every node n of the current tree getChildren(n.offset) is the list
\* of the offsets of n's children in document order, and getChildren() is that
\* of the root's children; so is what the last getChildren call returned.
C2_getChildrenEnumeratesChildren ==
  tree # 0 =>
    /\ getChildren(-1) = ChildOffsets(tree)
    /\ \A id \in Reachable(tree) :
         /\ getChildren(heap[id].offset) = ChildOffsets(id)
         /\ IsIncreasing(getChildren(heap[id].offset))
         /\ (lastOp.op = "getChildren" /\ lastOp.offset = heap[id].offset)
              => ret.offsets = ChildOffsets(id)
    /\ (lastOp.op = "getChildren" /\ lastOp.offset = -1) => ret.offsets = ChildOffsets(tree)

\* getChildren(0) was asked of a tree whose root is at offset 0 and has two
\* children
C2_Witness ==
  /\ lastOp.op = "getChildren"
  /\ lastOp.offset = 0
  /\ tree # 0
  /\ heap[tree].offset = 0
  /\ Len(ret.offsets) = 2
  /\ ret.offsets = ChildOffsets(tree)

\* C3: with a tree loaded, getTreeItem and getChildren fail with an error for
\* an offset that is not in the offset index, and getTreeItem fails whenever
\* there is no tree or no editor.
C3_StaleOffsetIsHardFailure ==
  /\ ( /\ lastOp.op = "getTreeItem"
       /\ (tree = 0 \/ editor = NoEditor \/ lastOp.offset \notin DOMAIN nodeMap) )
       => ret.kind = "error"
  /\ ( /\ lastOp.op = "getChildren"
       /\ tree # 0
       /\ lastOp.offset # -1
       /\ lastOp.offset \notin DOMAIN nodeMap )
       => ret.kind = "error"

RECURSIVE OpenBrackets(_)
\* how many more brackets a text opens than it closes
OpenBrackets(t) ==
  IF t = <<>> THEN 0
  ELSE OpenBrackets(Tail(t))
         + (IF Head(t) \in {"[", "{"} THEN 1 ELSE IF Head(t) \in {"]", "}"} THEN -1 ELSE 0)

\* a text that leaves a bracket open is malformed, as JSON and as flow YAML
Unclosed(t) == OpenBrackets(t) > 0

\* C4: after a parse that fails (no active editor, an empty document,
\* malformed input) the tree is undefined, the offset index is empty and
\* getChildren returns the empty list for every offset and for none.
C4_FailedParseLeavesNoTree ==
  (editor = NoEditor \/ text = <<>> \/ Unclosed(text)) =>
    /\ tree = 0
    /\ nodeMap = EmptyMap
    /\ \A o \in Handles \cup {-1} : getChildren(o) = <<>>

\* C5: when the language of the tracked document is none of json, jsonc and
\* yaml, the tree is undefined and getChildren returns the empty list for
\* every query, whatever the text.
C5_UnrecognizedFormatHasNoTree ==
  (editor # NoEditor /\ languageId \notin {"json", "jsonc", "yaml"}) =>
    /\ tree = 0
    /\ \A o \in Handles \cup {-1} : getChildren(o) = <<>>

\* rename has no valid target: the input was cancelled, the offset is not in
\* the index, the node is an array element or it has no recorded key span
NoValidTarget(offset, value) ==
  \/ value = <<>>
  \/ offset \notin DOMAIN nodeMap
  \/ LET n == heap[nodeMap[offset]]
     IN  \/ n.parent # 0 /\ heap[n.parent].type = "array"
         \/ n.keyOffset = -1
         \/ n.keyLength = -1

\* C6: a rename without a valid target is a silent no-op: when its input box
\* resolves, no edit is requested, the documents are unchanged, no re-parse is
\* scheduled, no change notification fires and no error is raised.
C6_RenameWithoutTargetIsNoOp ==
  [][(lastOp'.op = "renameInput" /\ NoValidTarget(lastOp'.offset, lastOp'.value))
       => /\ edits' = edits
          /\ docText' = docText
          /\ timers' = timers
          /\ fired' = <<>>
          /\ ret'.kind # "error"
          /\ UNCHANGED provider]_vars

\* the user typed a label to rename an array element, and nothing was asked
\* of the host
C6_Witness ==
  /\ lastOp.op = "renameInput"
  /\ lastOp.value # <<>>
  /\ tree # 0
  /\ lastOp.offset \in DOMAIN nodeMap
  /\ heap[nodeMap[lastOp.offset]].parent # 0
  /\ heap[heap[nodeMap[lastOp.offset]].parent].type = "array"
  /\ edits = <<>>
  /\ timers = <<>>
  /\ fired = <<>>

\* C7: the re-parse that rename schedules after requesting an edit runs only
\* once that edit is reflected in the document text.
C7_ReparseReadsTheEditedText ==
  lastOp.op = "timer" => lastOp.edit = "applied"

\* C8: an accepted rename asks the host to replace exactly the key span
\* [keyOffset, keyOffset + keyLength) of the target node, with the JSON-quoted
\* label for a JSON document and, for a YAML document, with the label wrapped
\* in the quote character the existing key starts with, if any.
C8_RenameReplacesTheKeySpan ==
  (lastOp.op = "renameInput" /\ lastOp.requested) =>
    LET n == heap[nodeMap[lastOp.offset]]
        e == edits[Len(edits)]
        label == lastOp.value[1]
        existing == Trim(Slice(text, n.keyOffset, n.keyOffset + n.keyLength))
    IN  /\ e.start = n.keyOffset
        /\ e.end = n.keyOffset + n.keyLength
        /\ e.replacement =
             IF languageId = "yaml"
               THEN IF existing # <<>> /\ existing[1] \in {Q, "'"}
                      THEN <<existing[1]>> \o label \o <<existing[1]>>
                      ELSE label
               ELSE JsonStringify(label)

\* the label the specification gives the node with this id
ClaimedLabel(id) ==
  LET n == heap[id]
      source == Slice(docText[editor], n.offset, n.offset + n.length)
      count == NumToString(Len(n.children))
      siblings == heap[n.parent].children
      index == NumToString((CHOOSE i \in 1..Len(siblings) : siblings[i] = id) - 1)
  IN  IF n.parent # 0 /\ heap[n.parent].type = "array"
        THEN index \o <<":", " ">>
               \o (IF n.type = "object" THEN <<"{", " ">> \o count \o <<" ", "}">>
                   ELSE IF n.type = "array" THEN <<"[", " ">> \o count \o <<" ", "]">>
                   ELSE source)
        ELSE IF n.type = "object" THEN <<"{", " ">> \o count \o <<" ", "}", " ">> \o n.key.s
        ELSE IF n.type = "array" THEN <<"[", " ">> \o count \o <<" ", "]", " ">> \o n.key.s
        ELSE n.key.s \o <<":", " ">> \o source

\* C9: the label of a tree item is "<index>: <X>" under an array, X being the
\* container summary or the scalar's source text, and "<property>: <source
\* text>" or "{ <count> } <property>" / "[ <count> ] <property>" otherwise.
C9_LabelIsAsSpecified ==
  ( /\ lastOp.op = "getTreeItem"
    /\ tree # 0
    /\ editor # NoEditor
    /\ lastOp.offset \in DOMAIN nodeMap )
    => /\ ret.kind = "item"
       /\ ret.label = ClaimedLabel(nodeMap[lastOp.offset])

\* C10: a document change re-parses and fires a full refresh exactly when a
\* tree is loaded, auto refresh is on and the document is the tracked
\* editor's; otherwise the tree, the index, the cached text and the tracked
\* editor stay as they are and nothing fires, so an undefined tree is never
\* rebuilt by a document change.
C10_DocumentChangeRefreshesExactlyWhenTracked ==
  [][lastOp'.op \in {"onDocumentChanged", "editApplied"}
       => IF tree # 0 /\ autoRefresh /\ editor # NoEditor /\ lastOp'.doc = editor
            THEN /\ fired' = <<-1>>
                 /\ LET P == parseTree(active, docText')
                    IN  /\ tree' = P.tree
                        /\ text' = P.text
                        /\ editor' = P.editor
                        /\ nodeMap' = P.nodeMap
                        /\ heap' = P.heap
            ELSE /\ UNCHANGED provider
                 /\ fired' = <<>>]_vars

\* with auto refresh on, the tracked document went from empty to a text
\* that parses, and the tree stayed undefined
C10_Witness ==
  /\ lastOp.op = "onDocumentChanged"
  /\ autoRefresh
  /\ editor # NoEditor
  /\ lastOp.doc = editor
  /\ tree = 0
  /\ text = <<>>
  /\ JsonParseTree(docText[editor]) # <<>>
  /\ fired = <<>>

====
